---- MODULE Spec2Model ----
(***************************************************************************)
(* Model of data/get_weather_data.py: the incremental weather cache.       *)
(*                                                                         *)
(* main() loads the marathon catalog, loads the cache file into a mapping  *)
(* keyed by (marathon, date), walks the catalog appending either the       *)
(* cached record or a freshly fetched one, and overwrites the cache file   *)
(* with the result list.                                                   *)
(*                                                                         *)
(* JSON values: an object is a function from field names, an array a       *)
(* sequence, a nullable number is <<>> (null / None) or <<n>>.  Numbers    *)
(* with one decimal are written in tenths (50.2 is 502).                   *)
(* The catalog file and the cache file, when present, are well-formed.     *)
(***************************************************************************)
EXTENDS Integers, Sequences, FiniteSets, TLC

VARIABLES
    catalog,           \* content of test_marathons.json
    file,              \* test_weather.json: [exists, data]
    marathons,         \* main: marathons
    existing_weather,  \* main: existing_weather, (marathon, date) -> entry
    results,           \* fetch_all_marathon_weather: results
    mi, ei,            \* position of the two for loops (marathon, event)
    weather_data,      \* last value returned by get_weather_data, <<>> if none
    extracted,         \* last value returned by extract_weather_fields, <<>> if none
    pc,                \* control position
    calls,             \* get_weather_data calls made by this run, in order
    writes,            \* number of times this run opened the cache file for writing
    run,               \* number of the current run of main
    file0,             \* the cache file as it was when this run started
    prevDone           \* the previous run completed (wrote the file)

vars == <<catalog, file, marathons, existing_weather, results, mi, ei,
          weather_data, extracted, pc, calls, writes, run, file0, prevDone>>

\* ---------------------------------------------------------------- bounds

MaxCatalogSize == 4   \* marathons plus events in a catalog
MaxCacheLen == 2      \* records in the cache file a run starts from
MaxFileLen == 3       \* records in a file given to load_existing_weather alone
MaxDays == 2          \* entries of "days" in a response given to the extractor
MaxHours == 3         \* entries of "hours" in one day
MaxRuns == 2          \* runs of main in succession

\* ---------------------------------------------------------------- values

None == <<>>
Some(v) == <<v>>

SeqsUpTo(S, n) == UNION { [1..k -> S] : k \in 0..n }

Range(s) == { s[i] : i \in DOMAIN s }

\* Hourly entries of an API response: one complete (with a field the
\* extractor does not keep), one with a null and with missing fields.
HourClear ==
    [datetime |-> "00:00:00", temp |-> Some(502), dew |-> Some(401),
     windspeed |-> Some(50), conditions |-> "Clear", humidity |-> Some(70)]
HourSparse == [datetime |-> "01:00:00", temp |-> None]
Hours == {HourClear, HourSparse}

Days == { [hours |-> h] : h \in SeqsUpTo(Hours, MaxHours) }
Responses == { [days |-> d] : d \in SeqsUpTo(Days, MaxDays) }

\* Responses the weather API gives during a run of main.
DayClear == [hours |-> <<HourClear>>]
DaySparse == [hours |-> <<HourSparse>>]
RespClear == [days |-> <<DayClear>>]
RespSparse == [days |-> <<DaySparse>>]
RespNoDays == [days |-> <<>>]
RespTwoDays == [days |-> <<DayClear, DaySparse>>]
NetResponses == {RespClear, RespSparse, RespNoDays, RespTwoDays}

\* ---------------------------------------------------------------- extract_weather_fields

\* dict.get(field, default)
Get(d, field, default) == IF field \in DOMAIN d THEN d[field] ELSE default

ExtractHour(hour) ==
    [datetime |-> Get(hour, "datetime", ""),
     temp |-> Get(hour, "temp", None),
     dew |-> Get(hour, "dew", None),
     windspeed |-> Get(hour, "windspeed", None),
     conditions |-> Get(hour, "conditions", "")]

\* Fault: the assertion only rejects an empty "days".
ExpectedOneDayLoose(weather_data_) == Len(weather_data_.days) >= 1

\* assert len(weather_data["days"]) == 1
ExpectedOneDay(weather_data_) == Len(weather_data_.days) = 1

\* The value returned when the assertion passes.
extract_weather_fields(weather_data_) ==
    LET day_data == weather_data_.days[1]
    IN  [i \in 1..Len(day_data.hours) |-> ExtractHour(day_data.hours[i])]

\* ---------------------------------------------------------------- load_existing_weather

Key(entry) == <<entry.marathon, entry.date>>

EmptyDict == [k \in {} |-> None]

\* Fault: d.setdefault(k, v), the first entry of a key is kept.
DictSetDefault(d, k, v) ==
    [x \in DOMAIN d \cup {k} |-> IF x \in DOMAIN d THEN d[x] ELSE v]

\* d[k] = v
DictSet(d, k, v) == [x \in DOMAIN d \cup {k} |-> IF x = k THEN v ELSE d[x]]

\* {(entry["marathon"], entry["date"]): entry for entry in existing_data},
\* over the first n entries
RECURSIVE IndexEntries(_, _)
IndexEntries(existing_data, n) ==
    IF n = 0 THEN EmptyDict
    ELSE DictSet(IndexEntries(existing_data, n - 1),
                 Key(existing_data[n]), existing_data[n])

NoFile == [exists |-> FALSE, data |-> <<>>]
FileOf(data) == [exists |-> TRUE, data |-> data]

load_existing_weather(f) ==
    IF ~f.exists THEN EmptyDict ELSE IndexEntries(f.data, Len(f.data))

\* ---------------------------------------------------------------- inputs

MarathonChoices ==
    { [name |-> "Boston", location |-> "Boston, MA"],
      [name |-> "London", location |-> "London, UK"] }

EventChoices ==
    { [date |-> "2020-04-20", year |-> 2020],
      [date |-> "2021-10-03", year |-> 2021] }

MarathonsOfSize(w) ==
    { [name |-> m.name, location |-> m.location, history |-> h] :
        m \in MarathonChoices, h \in [1..(w - 1) -> EventChoices] }

\* Catalogs whose marathons and events together number at most n.
RECURSIVE CatalogsUpTo(_)
CatalogsUpTo(n) ==
    {<<>>} \cup
    UNION { { <<m>> \o c : m \in MarathonsOfSize(w), c \in CatalogsUpTo(n - w) } :
            w \in 1..n }

Catalogs == CatalogsUpTo(MaxCatalogSize)

WeatherClear == extract_weather_fields(RespClear)
WeatherSparse == extract_weather_fields(RespSparse)

\* Records a cache file may hold: two with the same key, one of another
\* marathon, one whose location and year differ from any catalog's.
CachedBoston ==
    [marathon |-> "Boston", location |-> "Boston, MA", date |-> "2020-04-20",
     year |-> 2020, weather |-> WeatherClear]
CachedBostonAgain ==
    [marathon |-> "Boston", location |-> "Boston, MA", date |-> "2020-04-20",
     year |-> 2020, weather |-> WeatherSparse]
CachedLondon ==
    [marathon |-> "London", location |-> "London, UK", date |-> "2021-10-03",
     year |-> 2021, weather |-> <<>>]
CachedLondonOld ==
    [marathon |-> "London", location |-> "London", date |-> "2020-04-20",
     year |-> 2019, weather |-> WeatherClear]

CacheRecords == {CachedBoston, CachedBostonAgain, CachedLondon}
FileRecords == CacheRecords \cup {CachedLondonOld}

CacheFiles == {NoFile} \cup { FileOf(d) : d \in SeqsUpTo(CacheRecords, MaxCacheLen) }
LoaderFiles == {NoFile} \cup { FileOf(d) : d \in SeqsUpTo(FileRecords, MaxFileLen) }

\* ---------------------------------------------------------------- fetch_all_marathon_weather

\* The next (marathon, event) the two for loops reach from marathon m,
\* event e; marathon Len(marathons_) + 1 when the loops are over.
RECURSIVE NextPos(_, _, _)
NextPos(marathons_, m, e) ==
    IF m > Len(marathons_) THEN <<Len(marathons_) + 1, 1>>
    ELSE IF e <= Len(marathons_[m].history) THEN <<m, e>>
    ELSE NextPos(marathons_, m + 1, 1)

\* Fault: the cache is never consulted.
InCacheNever(key, existing_weather_) == FALSE

\* (marathon_name, date) in existing_weather
InCache(key, existing_weather_) == key \in DOMAIN existing_weather_

\* Fault: a fetched entry is also stored in existing_weather.
StoredInCache(existing_weather_, entry) ==
    DictSet(existing_weather_, Key(entry), entry)

\* A fetched entry goes into results only: existing_weather is not assigned.
CacheAfterFetch(existing_weather_, entry) == existing_weather_

\* Fault: results.insert(0, entry).
AppendFront(results_, entry) == <<entry>> \o results_

\* results.append(entry)
AppendResult(results_, entry) == Append(results_, entry)

\* The entry built for a fetched event.
NewEntry(marathon, event, extracted_weather) ==
    [marathon |-> marathon.name, location |-> marathon.location,
     date |-> event.date, year |-> event.year, weather |-> extracted_weather]

\* What a run records of one get_weather_data(location, date) call.
Call(marathon, event, outcome, response) ==
    [marathon |-> marathon.name, location |-> marathon.location,
     date |-> event.date, outcome |-> outcome, response |-> response]

CurMarathon == marathons[mi]
CurEvent == marathons[mi].history[ei]
CurKey == <<CurMarathon.name, CurEvent.date>>

InLoop == pc = "fetch" /\ mi <= Len(marathons)

Advance ==
    LET p == NextPos(marathons, mi, ei + 1)
    IN  mi' = p[1] /\ ei' = p[2]

\* ---------------------------------------------------------------- main

Init ==
    /\ catalog \in Catalogs
    /\ file \in CacheFiles
    /\ marathons = <<>>
    /\ existing_weather = EmptyDict
    /\ results = <<>>
    /\ mi = 1
    /\ ei = 1
    /\ weather_data = <<>>
    /\ extracted = <<>>
    /\ pc = "load_marathons"
    /\ calls = <<>>
    /\ writes = 0
    /\ run = 1
    /\ file0 = file
    /\ prevDone = FALSE

\* marathons = load_marathons()
LoadMarathons ==
    /\ pc = "load_marathons"
    /\ marathons' = catalog
    /\ pc' = "load_existing"
    /\ UNCHANGED <<catalog, file, existing_weather, results, mi, ei, weather_data,
                   extracted, calls, writes, run, file0, prevDone>>

\* existing_weather = load_existing_weather(), then the call of
\* fetch_all_marathon_weather up to the first event
LoadExistingWeather ==
    /\ pc = "load_existing"
    /\ existing_weather' = load_existing_weather(file)
    /\ results' = <<>>
    /\ mi' = NextPos(marathons, 1, 1)[1]
    /\ ei' = NextPos(marathons, 1, 1)[2]
    /\ pc' = "fetch"
    /\ UNCHANGED <<catalog, file, marathons, weather_data, extracted, calls,
                   writes, run, file0, prevDone>>

\* the key is cached: append the existing entry and continue
UseExisting ==
    /\ InLoop
    /\ InCache(CurKey, existing_weather)
    /\ results' = AppendResult(results, existing_weather[CurKey])
    /\ Advance
    /\ UNCHANGED <<catalog, file, marathons, existing_weather, weather_data,
                   extracted, pc, calls, writes, run, file0, prevDone>>

\* the key is not cached, the API answers with one day of data
FetchWeather ==
    /\ InLoop
    /\ ~InCache(CurKey, existing_weather)
    /\ \E r \in NetResponses :
        /\ ExpectedOneDay(r)
        /\ weather_data' = Some(r)
        /\ extracted' = Some(extract_weather_fields(r))
        /\ results' = AppendResult(results,
                          NewEntry(CurMarathon, CurEvent, extract_weather_fields(r)))
        /\ existing_weather' = CacheAfterFetch(existing_weather,
                          NewEntry(CurMarathon, CurEvent, extract_weather_fields(r)))
        /\ calls' = Append(calls, Call(CurMarathon, CurEvent, "fetched", Some(r)))
    /\ Advance
    /\ UNCHANGED <<catalog, file, marathons, pc, writes, run, file0, prevDone>>

\* Fault: the partial results are saved when the fetch fails.
AbortAfterSaving ==
    /\ pc' = "failed"
    /\ file' = FileOf(results)
    /\ writes' = writes + 1

\* An exception leaves fetch_all_marathon_weather and main: nothing after
\* the call of fetch_all_marathon_weather runs.
Abort ==
    /\ pc' = "failed"
    /\ UNCHANGED <<file, writes>>

\* the key is not cached, urlopen or json.loads raises
FetchNetworkError ==
    /\ InLoop
    /\ ~InCache(CurKey, existing_weather)
    /\ calls' = Append(calls, Call(CurMarathon, CurEvent, "network_error", None))
    /\ Abort
    /\ UNCHANGED <<catalog, marathons, existing_weather, results, mi, ei,
                   weather_data, extracted, run, file0, prevDone>>

\* the key is not cached, the API answers and the extractor's assertion fails
FetchBadResponse ==
    /\ InLoop
    /\ ~InCache(CurKey, existing_weather)
    /\ \E r \in NetResponses :
        /\ ~ExpectedOneDay(r)
        /\ weather_data' = Some(r)
        /\ calls' = Append(calls, Call(CurMarathon, CurEvent, "extract_error", Some(r)))
    /\ Abort
    /\ UNCHANGED <<catalog, marathons, existing_weather, results, mi, ei,
                   extracted, run, file0, prevDone>>

\* Fault: the file is opened for appending ('a').
SavedFileAppended(file_, results_) == FileOf(file_.data \o results_)

\* with open(output_file, 'w') as f: json.dump(results, f, indent=2)
SavedFile(file_, results_) == FileOf(results_)

\* the loops are over: return results, then main overwrites the cache file
WriteResults ==
    /\ pc = "fetch"
    /\ mi > Len(marathons)
    /\ file' = SavedFile(file, results)
    /\ writes' = writes + 1
    /\ pc' = "done"
    /\ UNCHANGED <<catalog, marathons, existing_weather, results, mi, ei,
                   weather_data, extracted, calls, run, file0, prevDone>>

\* the program is started again: a new process, the same files
StartRun ==
    /\ pc \in {"done", "failed"}
    /\ run < MaxRuns
    /\ run' = run + 1
    /\ prevDone' = (pc = "done")
    /\ file0' = file
    /\ marathons' = <<>>
    /\ existing_weather' = EmptyDict
    /\ results' = <<>>
    /\ mi' = 1
    /\ ei' = 1
    /\ weather_data' = <<>>
    /\ extracted' = <<>>
    /\ calls' = <<>>
    /\ writes' = 0
    /\ pc' = "load_marathons"
    /\ UNCHANGED <<catalog, file>>

Next ==
    \/ LoadMarathons
    \/ LoadExistingWeather
    \/ UseExisting
    \/ FetchWeather
    \/ FetchNetworkError
    \/ FetchBadResponse
    \/ WriteResults
    \/ StartRun

Spec == Init /\ [][Next]_vars

\* ---------------------------------------------------------------- extract_weather_fields alone

InitExtract ==
    /\ weather_data \in { Some(r) : r \in Responses }
    /\ extracted = <<>>
    /\ pc = "extract"
    /\ catalog = <<>>
    /\ file = NoFile
    /\ marathons = <<>>
    /\ existing_weather = EmptyDict
    /\ results = <<>>
    /\ mi = 1
    /\ ei = 1
    /\ calls = <<>>
    /\ writes = 0
    /\ run = 1
    /\ file0 = NoFile
    /\ prevDone = FALSE

\* the assertion passes and the readings are returned
ExtractReturns ==
    /\ pc = "extract"
    /\ ExpectedOneDay(weather_data[1])
    /\ extracted' = Some(extract_weather_fields(weather_data[1]))
    /\ pc' = "returned"
    /\ UNCHANGED <<catalog, file, marathons, existing_weather, results, mi, ei,
                   weather_data, calls, writes, run, file0, prevDone>>

\* the assertion fails: AssertionError, nothing is returned
ExtractRaises ==
    /\ pc = "extract"
    /\ ~ExpectedOneDay(weather_data[1])
    /\ pc' = "raised"
    /\ UNCHANGED <<catalog, file, marathons, existing_weather, results, mi, ei,
                   weather_data, extracted, calls, writes, run, file0, prevDone>>

NextExtract == ExtractReturns \/ ExtractRaises

SpecExtract == InitExtract /\ [][NextExtract]_vars

\* ---------------------------------------------------------------- load_existing_weather alone

InitLoad ==
    /\ file \in LoaderFiles
    /\ file0 = file
    /\ pc = "load_existing"
    /\ catalog = <<>>
    /\ marathons = <<>>
    /\ existing_weather = EmptyDict
    /\ results = <<>>
    /\ mi = 1
    /\ ei = 1
    /\ weather_data = <<>>
    /\ extracted = <<>>
    /\ calls = <<>>
    /\ writes = 0
    /\ run = 1
    /\ prevDone = FALSE

NextLoad == LoadExistingWeather

SpecLoad == InitLoad /\ [][NextLoad]_vars

\* ---------------------------------------------------------------- properties

\* The events of a catalog in marathon-then-history order.
RECURSIVE CatalogEvents(_)
CatalogEvents(ms) ==
    IF ms = <<>> THEN <<>>
    ELSE [i \in 1..Len(Head(ms).history) |->
            [name |-> Head(ms).name, location |-> Head(ms).location,
             date |-> Head(ms).history[i].date, year |-> Head(ms).history[i].year]]
         \o CatalogEvents(Tail(ms))

EventKey(e) == <<e.name, e.date>>
CallKey(c) == <<c.marathon, c.date>>
RequiredKeys == { EventKey(e) : e \in Range(CatalogEvents(catalog)) }
KeySet(data) == { Key(data[i]) : i \in DOMAIN data }
CallsFor(k) == { i \in DOMAIN calls : CallKey(calls[i]) = k }
Count(r, s) == Cardinality({ i \in DOMAIN s : s[i] = r })
SameRecords(s, t) ==
    /\ Len(s) = Len(t)
    /\ \A r \in Range(s) \cup Range(t) : Count(r, s) = Count(r, t)
InCatalogOrder(rs) ==
    /\ Len(rs) = Len(CatalogEvents(catalog))
    /\ \A i \in DOMAIN rs : Key(rs[i]) = EventKey(CatalogEvents(catalog)[i])
Missed(e) == EventKey(e) \notin DOMAIN existing_weather
LastIndex(data, k) ==
    CHOOSE i \in DOMAIN data :
        /\ Key(data[i]) = k
        /\ \A j \in DOMAIN data : j > i => Key(data[j]) # k

\* C1: after a successful fetch, every key the catalog requires and the
\* cache mapping lacks has had exactly one get_weather_data call, made with
\* the event's (location, date), and the record appended for it carries the
\* extractor's output on that call's response.
C1_OneCallPerMissingKey ==
    pc = "done" =>
        \A n \in DOMAIN CatalogEvents(catalog) :
            LET e == CatalogEvents(catalog)[n]
            IN  Missed(e) =>
                  /\ Cardinality(CallsFor(EventKey(e))) = 1
                  /\ \A i \in CallsFor(EventKey(e)) :
                        /\ calls[i].location = e.location
                        /\ calls[i].date = e.date
                        /\ results[n].weather =
                              extract_weather_fields(calls[i].response[1])

\* C2: no get_weather_data call is ever made for a key of the cache mapping,
\* and the record appended for an event whose key is cached is the cached
\* record itself.
C2_CacheHit ==
    /\ \A i \in DOMAIN calls : CallKey(calls[i]) \notin DOMAIN existing_weather
    /\ \A n \in DOMAIN results :
          LET k == EventKey(CatalogEvents(marathons)[n])
          IN  k \in DOMAIN existing_weather => results[n] = existing_weather[k]

C2_Witness ==
    /\ pc = "done"
    /\ calls # <<>>
    /\ \E n \in DOMAIN results :
          /\ ~Missed(CatalogEvents(marathons)[n])
          /\ results[n] = CachedBostonAgain

\* C3: after a successful run no two records of the rewritten cache file
\* have the same (marathon, date) key.
C3_UniqueKeys ==
    pc = "done" =>
        \A i, j \in DOMAIN file.data :
            i # j => Key(file.data[i]) # Key(file.data[j])

\* C4: a run that follows a completed run of the same catalog, its cache
\* holding every required key, makes no get_weather_data call and returns
\* the records of the cache file, in catalog order.
C4_Idempotent ==
    (pc = "done" /\ run >= 2 /\ prevDone /\ RequiredKeys \subseteq KeySet(file0.data)) =>
        /\ calls = <<>>
        /\ SameRecords(results, file0.data)
        /\ InCatalogOrder(results)

\* C5: a failing get_weather_data or extract_weather_fields call is the
\* last call of its run, and the run ends without writing the cache file,
\* which is as it was when the run started.
C5_FailurePersistsNothing ==
    /\ \A i \in DOMAIN calls :
          calls[i].outcome # "fetched" =>
              /\ i = Len(calls)
              /\ pc = "failed"
    /\ pc = "failed" =>
          /\ calls # <<>>
          /\ calls[Len(calls)].outcome # "fetched"
          /\ writes = 0
          /\ file = file0

C5_Witness ==
    /\ pc = "failed"
    /\ file0.exists
    /\ Len(calls) >= 2
    /\ NextPos(marathons, mi, ei + 1)[1] <= Len(marathons)

\* C6: a successful fetch returns one record per event of the catalog, in
\* marathon-then-history order whatever the order of the cache, and its
\* calls are exactly the events missing from the cache, in that order.
C6_CatalogOrder ==
    pc = "done" =>
        /\ InCatalogOrder(results)
        /\ LET missed == SelectSeq(CatalogEvents(catalog), Missed)
           IN  /\ Len(calls) = Len(missed)
               /\ \A i \in DOMAIN calls :
                     /\ CallKey(calls[i]) = EventKey(missed[i])
                     /\ calls[i].location = missed[i].location

C6_Witness ==
    /\ pc = "done"
    /\ Len(results) = 2
    /\ Len(calls) = 1
    /\ Missed(CatalogEvents(catalog)[1])
    /\ ~Missed(CatalogEvents(catalog)[2])
    /\ file0.data = <<CachedLondon, CachedBoston>>

ReadingFields == {"datetime", "temp", "dew", "windspeed", "conditions"}
TextFields == {"datetime", "conditions"}

\* C7: the extractor raises, returning nothing, on a response with zero
\* days or with two or more; on a response with one day it returns one
\* reading per hourly entry of that day, in order, each with the five kept
\* fields copied, "" for a missing text field and null for a missing number.
C7_OneDayOrRaise ==
    LET days == weather_data[1].days
    IN  /\ pc = "raised" => Len(days) # 1 /\ extracted = <<>>
        /\ pc = "returned" =>
              /\ Len(days) = 1
              /\ extracted # <<>>
              /\ Len(extracted[1]) = Len(days[1].hours)
              /\ \A i \in 1..Len(days[1].hours) :
                    /\ DOMAIN extracted[1][i] = ReadingFields
                    /\ \A f \in ReadingFields :
                          extracted[1][i][f] =
                              IF f \in DOMAIN days[1].hours[i] THEN days[1].hours[i][f]
                              ELSE IF f \in TextFields THEN "" ELSE None

C7_Witness ==
    /\ pc = "raised"
    /\ Len(weather_data[1].days) >= 2
    /\ weather_data[1].days[1].hours # <<>>

\* C8: load_existing_weather returns the empty mapping when the file does
\* not exist; otherwise the keys of the mapping are the keys of the file's
\* records and each key maps to the last record of the file with that key.
C8_LastWriteWins ==
    pc = "fetch" =>
        /\ ~file.exists => existing_weather = EmptyDict
        /\ file.exists =>
              /\ DOMAIN existing_weather = KeySet(file.data)
              /\ \A k \in DOMAIN existing_weather :
                    existing_weather[k] = file.data[LastIndex(file.data, k)]

C8_Witness ==
    /\ pc = "fetch"
    /\ file.data = <<CachedBoston, CachedLondon, CachedBostonAgain>>
    /\ existing_weather[<<"Boston", "2020-04-20">>] = CachedBostonAgain

\* C9: no step of fetch_all_marathon_weather, whether it appends, fails or
\* returns, changes the existing_weather mapping.
C9_CacheReadOnly == [][pc = "fetch" => existing_weather' = existing_weather]_vars

C9_Witness ==
    /\ pc = "failed"
    /\ DOMAIN existing_weather # {}
    /\ Len(calls) >= 2
    /\ \E n \in DOMAIN results : ~Missed(CatalogEvents(marathons)[n])
    /\ \E n \in DOMAIN results : Missed(CatalogEvents(marathons)[n])

\* C10: a completed run has written the cache file exactly once, also when
\* it made no get_weather_data call; the file then holds exactly the result
\* list, so its keys are the keys the catalog requires and a record of the
\* old file whose key the catalog lacks is gone.
C10_RewrittenWholesale ==
    pc = "done" =>
        /\ writes = 1
        /\ file.exists
        /\ file.data = results
        /\ KeySet(file.data) = RequiredKeys
        /\ \A i \in DOMAIN file0.data :
              Key(file0.data[i]) \notin RequiredKeys =>
                  file0.data[i] \notin Range(file.data)

C10_Witness ==
    /\ pc = "done"
    /\ calls = <<>>
    /\ results # <<>>
    /\ \E i \in DOMAIN file0.data : Key(file0.data[i]) \notin RequiredKeys

====
